---- MODULE Spec2Model ----
(***************************************************************************)
(* createDeviceFingerprint (src/fingerprint.ts, src/fp.js): render a fixed *)
(* triangle with WebGL, read the pixels back, digest them with SHA-256 and *)
(* return the digest as lowercase hex.                                     *)
(*                                                                         *)
(* The model runs NProcs invocations on one JavaScript event loop.  The    *)
(* host (DOM, WebGL, WebCrypto) is the environment: each of its answers is *)
(* drawn when the code asks for it and recorded in host[p].  Every call    *)
(* the code makes into the host is appended to calls[p].                   *)
(***************************************************************************)
EXTENDS Integers, Sequences, FiniteSets, TLC

\* ---------------------------------------------------------------- bounds
NProcs == 2        \* invocations on the event loop
MaxDim == 2        \* canvas.width and canvas.height range over 1..MaxDim

\* ------------------------------------------------------ program constants
HashLen == 32      \* bytes of a SHA-256 digest
PadLen == 2        \* padStart(2, "0")
Radix == 16        \* toString(16)
BytesPerPixel == 4 \* canvas.width * canvas.height * 4

Procs == 1..NProcs
NULL == "null"

vertexShaderSource ==
    "attribute vec2 aVertexPosition; void main() { gl_Position = vec4(aVertexPosition, 0, 1); }"

fragmentShaderSource ==
    "precision mediump float; uniform vec4 uColor; void main() { gl_FragColor = uColor; }"

\* new Float32Array([0.0, 1.0, -1.0, -1.0, 1.0, -1.0])
vertices == <<0, 1, -1, -1, 1, -1>>

ErrNoWebGL == "WebGL is not supported"
ErrNoProgram == "Shader program could not be initialized"
ErrTypeError == "TypeError"

MsgCreate == "Error creating shader."
MsgCompile == "An error occurred compiling the shaders: "
MsgLink == "Unable to initialize the shader program: "

\* ------------------------------------------------------------- the host
\* Texts the host may return from getShaderInfoLog / getProgramInfoLog.
InfoLogs == {"", "ERROR: 0:1: syntax error"}

\* What the host answers to createShader + compileShader of one stage.
ShaderAnswers ==
    {[created |-> FALSE, compiled |-> FALSE, log |-> ""],
     [created |-> TRUE, compiled |-> TRUE, log |-> ""]}
    \cup {[created |-> TRUE, compiled |-> FALSE, log |-> l] : l \in InfoLogs}

\* What the host answers to createProgram + linkProgram.
ProgramAnswers ==
    {[created |-> FALSE, linked |-> FALSE, log |-> ""],
     [created |-> TRUE, linked |-> TRUE, log |-> ""]}
    \cup {[created |-> TRUE, linked |-> FALSE, log |-> l] : l \in InfoLogs}

NotAsked == [created |-> FALSE, compiled |-> FALSE, log |-> ""]
ProgramNotAsked == [created |-> FALSE, linked |-> FALSE, log |-> ""]

HostInit ==
    [context |-> FALSE, vertex |-> NotAsked, fragment |-> NotAsked,
     program |-> ProgramNotAsked, width |-> 0, height |-> 0]

\* One call into the host: its name, its symbolic arguments, its numbers.
Call(op, syms, nums) == [op |-> op, syms |-> syms, nums |-> nums]

RECURSIVE SumTo(_, _)
SumTo(s, n) == IF n = 0 THEN 0 ELSE s[n] + SumTo(s, n - 1)
Sum(s) == SumTo(s, Len(s))

\* gl.readPixels: the RGBA bytes the host writes for a w x h surface, the
\* triangle in yellow (255,255,0,255) over opaque black (0,0,0,255); the
\* triangle covers every other pixel.
Rendered(w, h) ==
    [i \in 1..(w * h * BytesPerPixel) |->
        LET px == (i - 1) \div BytesPerPixel
            ch == (i - 1) % BytesPerPixel
        IN  IF ch = 3 THEN 255
            ELSE IF ch = 2 THEN 0
            ELSE IF px % 2 = 0 THEN 255 ELSE 0]

\* crypto.subtle.digest("SHA-256", data): a fixed function from the bytes of
\* data to HashLen bytes (the host's primitive, abstracted).
Sha256(data) ==
    LET mix == Sum(data) + 31 * Len(data)
    IN  [i \in 1..HashLen |-> (mix + 13 * i) % 256]

\* ------------------------------------------------------- pure functions
HexDigits == <<"0", "1", "2", "3", "4", "5", "6", "7",
               "8", "9", "a", "b", "c", "d", "e", "f">>

\* Number.prototype.toString(16): no leading zeros, "0" for zero.
RECURSIVE toString16(_)
toString16(b) ==
    IF b < Radix THEN <<HexDigits[b + 1]>>
    ELSE toString16(b \div Radix) \o <<HexDigits[(b % Radix) + 1]>>

\* padStart left out: the digits as toString gives them.
padStart_None(s, n) == s

\* String.prototype.padStart(n, "0")
RECURSIVE padStart(_, _)
padStart(s, n) == IF Len(s) >= n THEN s ELSE padStart(<<"0">> \o s, n)

\* (b) => b.toString(16).padStart(2, "0")
byteToHex(b) == padStart(toString16(b), PadLen)

\* hashArray.map(...).join("")
RECURSIVE hashHex(_)
hashHex(hashArray) ==
    IF hashArray = <<>> THEN <<>>
    ELSE byteToHex(Head(hashArray)) \o hashHex(Tail(hashArray))

\* createShader without the return null after a failed compile.
createShader_KeepsFailed(type, source, a) ==
    IF ~a.created
    THEN [shader |-> NULL,
          calls |-> <<Call("createShader", <<type>>, <<>>)>>,
          console |-> <<<<MsgCreate, "">>>>]
    ELSE [shader |-> type,
          calls |-> <<Call("createShader", <<type>>, <<>>),
                      Call("shaderSource", <<type, source>>, <<>>),
                      Call("compileShader", <<type>>, <<>>),
                      Call("getShaderParameter", <<type, "COMPILE_STATUS">>, <<>>)>>
                    \o (IF a.compiled THEN <<>>
                        ELSE <<Call("getShaderInfoLog", <<type>>, <<>>),
                               Call("deleteShader", <<type>>, <<>>)>>),
          console |-> IF a.compiled THEN <<>> ELSE <<<<MsgCompile, a.log>>>>]

\* createShader(gl, type, source) against the host answer a: the shader it
\* returns, the calls it makes and what it writes to console.error.
createShader(type, source, a) ==
    IF ~a.created
    THEN [shader |-> NULL,
          calls |-> <<Call("createShader", <<type>>, <<>>)>>,
          console |-> <<<<MsgCreate, "">>>>]
    ELSE IF ~a.compiled
    THEN [shader |-> NULL,
          calls |-> <<Call("createShader", <<type>>, <<>>),
                      Call("shaderSource", <<type, source>>, <<>>),
                      Call("compileShader", <<type>>, <<>>),
                      Call("getShaderParameter", <<type, "COMPILE_STATUS">>, <<>>),
                      Call("getShaderInfoLog", <<type>>, <<>>),
                      Call("deleteShader", <<type>>, <<>>)>>,
          console |-> <<<<MsgCompile, a.log>>>>]
    ELSE [shader |-> type,
          calls |-> <<Call("createShader", <<type>>, <<>>),
                      Call("shaderSource", <<type, source>>, <<>>),
                      Call("compileShader", <<type>>, <<>>),
                      Call("getShaderParameter", <<type, "COMPILE_STATUS">>, <<>>)>>,
          console |-> <<>>]

\* The calls of createShaderProgram from createProgram to the link status.
LinkCalls(vertexShader, fragmentShader) ==
    <<Call("createProgram", <<>>, <<>>),
      Call("attachShader", <<vertexShader>>, <<>>),
      Call("attachShader", <<fragmentShader>>, <<>>),
      Call("linkProgram", <<>>, <<>>),
      Call("getProgramParameter", <<"LINK_STATUS">>, <<>>)>>

\* The link without the check of LINK_STATUS.
link_NoStatusCheck(vertexShader, fragmentShader, pa) ==
    IF ~pa.created
    THEN [program |-> NULL, threw |-> TRUE,
          calls |-> <<Call("createProgram", <<>>, <<>>)>>, console |-> <<>>]
    ELSE [program |-> "program", threw |-> FALSE,
          calls |-> LinkCalls(vertexShader, fragmentShader), console |-> <<>>]

\* createShaderProgram once both shaders are there: createProgram, attach,
\* link, check.  threw: createProgram returned null and attachShader(null,
\* ...) raised a TypeError.
link(vertexShader, fragmentShader, pa) ==
    IF ~pa.created
    THEN [program |-> NULL, threw |-> TRUE,
          calls |-> <<Call("createProgram", <<>>, <<>>)>>, console |-> <<>>]
    ELSE IF ~pa.linked
    THEN [program |-> NULL, threw |-> FALSE,
          calls |-> LinkCalls(vertexShader, fragmentShader)
                    \o <<Call("getProgramInfoLog", <<>>, <<>>)>>,
          console |-> <<<<MsgLink, pa.log>>>>]
    ELSE [program |-> "program", threw |-> FALSE,
          calls |-> LinkCalls(vertexShader, fragmentShader), console |-> <<>>]

\* createShaderProgram compiling the vertex stage a second time when the
\* first compile failed.
createShaderProgram_RetriesVertex(vertexSource, fragmentSource, va, fa, pa) ==
    LET first == createShader("VERTEX_SHADER", vertexSource, va)
        vertexShader == createShader("VERTEX_SHADER", vertexSource, va)
        fragmentShader == createShader("FRAGMENT_SHADER", fragmentSource, fa)
        again == IF first.shader = NULL THEN first.calls ELSE <<>>
        both == again \o vertexShader.calls \o fragmentShader.calls
        said == vertexShader.console \o fragmentShader.console
    IN  IF vertexShader.shader = NULL \/ fragmentShader.shader = NULL
        THEN [program |-> NULL, threw |-> FALSE, calls |-> both, console |-> said]
        ELSE LET l == link(vertexShader.shader, fragmentShader.shader, pa)
             IN  [program |-> l.program, threw |-> l.threw,
                  calls |-> both \o l.calls, console |-> said \o l.console]

\* createShaderProgram(gl, vertexSource, fragmentSource) against the host
\* answers va, fa, pa.
createShaderProgram(vertexSource, fragmentSource, va, fa, pa) ==
    LET vertexShader == createShader("VERTEX_SHADER", vertexSource, va)
        fragmentShader == createShader("FRAGMENT_SHADER", fragmentSource, fa)
        both == vertexShader.calls \o fragmentShader.calls
        said == vertexShader.console \o fragmentShader.console
    IN  IF vertexShader.shader = NULL \/ fragmentShader.shader = NULL
        THEN [program |-> NULL, threw |-> FALSE, calls |-> both, console |-> said]
        ELSE LET l == link(vertexShader.shader, fragmentShader.shader, pa)
             IN  [program |-> l.program, threw |-> l.threw,
                  calls |-> both \o l.calls, console |-> said \o l.console]

\* ---------------------------------------------------------------- state
VARIABLES
    pc,          \* where each invocation stands
    running,     \* the invocations on the JavaScript stack: none or one
    host,        \* the host's answers to each invocation
    calls,       \* the calls each invocation has made into the host
    console,     \* what each invocation has written to console.error
    canvas,      \* each invocation's canvas: its style
    gl,          \* each invocation's context, or NULL
    shaderProgram, \* each invocation's program, or NULL
    pixels,      \* each invocation's readback buffer
    digest,      \* each invocation's digest promise
    yields,      \* how often each invocation has given up the stack
    outcome,     \* each invocation's promise
    hashBuffer,  \* input of the encoding run
    encoded      \* output of the encoding run

vars == <<pc, running, host, calls, console, canvas, gl, shaderProgram,
          pixels, digest, yields, outcome, hashBuffer, encoded>>

encVars == <<hashBuffer, encoded>>

NoStyle == [position |-> "", top |-> "", width |-> "", height |-> ""]
NoDigest == [state |-> "none", data |-> <<>>, value |-> <<>>]
Pending == [kind |-> "pending", value |-> <<>>]

InitProcs ==
    /\ pc = [p \in Procs |-> "idle"]
    /\ running = {}
    /\ host = [p \in Procs |-> HostInit]
    /\ calls = [p \in Procs |-> <<>>]
    /\ console = [p \in Procs |-> <<>>]
    /\ canvas = [p \in Procs |-> NoStyle]
    /\ gl = [p \in Procs |-> NULL]
    /\ shaderProgram = [p \in Procs |-> NULL]
    /\ pixels = [p \in Procs |-> <<>>]
    /\ digest = [p \in Procs |-> NoDigest]
    /\ yields = [p \in Procs |-> 0]
    /\ outcome = [p \in Procs |-> Pending]

Init ==
    /\ InitProcs
    /\ hashBuffer = <<>>
    /\ encoded = <<>>

Rejected(msg) == [kind |-> "rejected", value |-> <<msg>>]
Resolved(s) == [kind |-> "resolved", value |-> s]

\* ------------------------------------------------------------- actions
\* createDeviceFingerprint without the check of the context.
AcquireContext_NoCheck(p) ==
    /\ pc[p] = "idle"
    /\ running = {}
    /\ \E ok \in BOOLEAN :
        /\ host' = [host EXCEPT ![p].context = ok]
        /\ gl' = [gl EXCEPT ![p] = IF ok THEN "webgl" ELSE NULL]
    /\ calls' = [calls EXCEPT ![p] =
                    <<Call("createElement", <<"canvas">>, <<>>),
                      Call("getContext", <<"webgl">>, <<>>)>>]
    /\ pc' = [pc EXCEPT ![p] = "style"]
    /\ running' = {p}
    /\ UNCHANGED <<console, canvas, shaderProgram, pixels, digest, yields,
                   outcome, encVars>>

\* The call of createDeviceFingerprint: createElement, getContext and the
\* check of the context.
AcquireContext(p) ==
    /\ pc[p] = "idle"
    /\ running = {}
    /\ \E ok \in BOOLEAN :
        /\ host' = [host EXCEPT ![p].context = ok]
        /\ calls' = [calls EXCEPT ![p] =
                        <<Call("createElement", <<"canvas">>, <<>>),
                          Call("getContext", <<"webgl">>, <<>>)>>]
        /\ IF ok
           THEN /\ gl' = [gl EXCEPT ![p] = "webgl"]
                /\ pc' = [pc EXCEPT ![p] = "style"]
                /\ running' = {p}
                /\ outcome' = outcome
           ELSE /\ gl' = gl
                /\ pc' = [pc EXCEPT ![p] = "rejected"]
                /\ running' = {}
                /\ outcome' = [outcome EXCEPT ![p] = Rejected(ErrNoWebGL)]
    /\ UNCHANGED <<console, canvas, shaderProgram, pixels, digest, yields, encVars>>

ConfigureCanvas(p) ==
    /\ pc[p] = "style"
    /\ running = {p}
    /\ canvas' = [canvas EXCEPT ![p] =
                    [position |-> "absolute", top |-> "-9999px",
                     width |-> "1px", height |-> "1px"]]
    /\ pc' = [pc EXCEPT ![p] = "program"]
    /\ UNCHANGED <<running, host, calls, console, gl, shaderProgram, pixels,
                   digest, yields, outcome, encVars>>

\* createShaderProgram, the check of its result, and useProgram.
InitShaderProgram(p) ==
    /\ pc[p] = "program"
    /\ running = {p}
    /\ \E va \in ShaderAnswers, fa \in ShaderAnswers, pa \in ProgramAnswers :
        LET r == createShaderProgram(vertexShaderSource, fragmentShaderSource,
                                     va, fa, pa)
        IN  /\ (~(va.compiled /\ fa.compiled)) => pa = ProgramNotAsked
            /\ host' = [host EXCEPT ![p].vertex = va, ![p].fragment = fa,
                                    ![p].program = pa]
            /\ console' = [console EXCEPT ![p] = @ \o r.console]
            /\ shaderProgram' = [shaderProgram EXCEPT ![p] = r.program]
            /\ IF r.threw
               THEN /\ calls' = [calls EXCEPT ![p] = @ \o r.calls]
                    /\ pc' = [pc EXCEPT ![p] = "rejected"]
                    /\ running' = {}
                    /\ outcome' = [outcome EXCEPT ![p] = Rejected(ErrTypeError)]
               ELSE IF r.program = NULL
               THEN /\ calls' = [calls EXCEPT ![p] = @ \o r.calls]
                    /\ pc' = [pc EXCEPT ![p] = "rejected"]
                    /\ running' = {}
                    /\ outcome' = [outcome EXCEPT ![p] = Rejected(ErrNoProgram)]
               ELSE /\ calls' = [calls EXCEPT ![p] =
                                    @ \o r.calls \o <<Call("useProgram", <<>>, <<>>)>>]
                    /\ pc' = [pc EXCEPT ![p] = "buffer"]
                    /\ running' = {p}
                    /\ outcome' = outcome
    /\ UNCHANGED <<canvas, gl, pixels, digest, yields, encVars>>

UploadVertices(p) ==
    /\ pc[p] = "buffer"
    /\ running = {p}
    /\ calls' = [calls EXCEPT ![p] = @ \o
                    <<Call("createBuffer", <<>>, <<>>),
                      Call("bindBuffer", <<"ARRAY_BUFFER">>, <<>>),
                      Call("bufferData", <<"ARRAY_BUFFER", "STATIC_DRAW">>, vertices)>>]
    /\ pc' = [pc EXCEPT ![p] = "attrib"]
    /\ UNCHANGED <<running, host, console, canvas, gl, shaderProgram, pixels,
                   digest, yields, outcome, encVars>>

BindPosition(p) ==
    /\ pc[p] = "attrib"
    /\ running = {p}
    /\ calls' = [calls EXCEPT ![p] = @ \o
                    <<Call("getAttribLocation", <<"aVertexPosition">>, <<>>),
                      Call("enableVertexAttribArray", <<"aVertexPosition">>, <<>>),
                      Call("vertexAttribPointer",
                           <<"aVertexPosition", "FLOAT", "false">>, <<2, 0, 0>>)>>]
    /\ pc' = [pc EXCEPT ![p] = "uniform"]
    /\ UNCHANGED <<running, host, console, canvas, gl, shaderProgram, pixels,
                   digest, yields, outcome, encVars>>

SetColor(p) ==
    /\ pc[p] = "uniform"
    /\ running = {p}
    /\ calls' = [calls EXCEPT ![p] = @ \o
                    <<Call("getUniformLocation", <<"uColor">>, <<>>),
                      Call("uniform4f", <<"uColor">>, <<1, 1, 0, 1>>)>>]
    /\ pc' = [pc EXCEPT ![p] = "draw"]
    /\ UNCHANGED <<running, host, console, canvas, gl, shaderProgram, pixels,
                   digest, yields, outcome, encVars>>

\* The draw issued before the clear.
ClearAndDraw_DrawFirst(p) ==
    /\ pc[p] = "draw"
    /\ running = {p}
    /\ calls' = [calls EXCEPT ![p] = @ \o
                    <<Call("drawArrays", <<"TRIANGLES">>, <<0, 3>>),
                      Call("clearColor", <<>>, <<0, 0, 0, 1>>),
                      Call("clear", <<"COLOR_BUFFER_BIT">>, <<>>)>>]
    /\ pc' = [pc EXCEPT ![p] = "read"]
    /\ UNCHANGED <<running, host, console, canvas, gl, shaderProgram, pixels,
                   digest, yields, outcome, encVars>>

ClearAndDraw(p) ==
    /\ pc[p] = "draw"
    /\ running = {p}
    /\ calls' = [calls EXCEPT ![p] = @ \o
                    <<Call("clearColor", <<>>, <<0, 0, 0, 1>>),
                      Call("clear", <<"COLOR_BUFFER_BIT">>, <<>>),
                      Call("drawArrays", <<"TRIANGLES">>, <<0, 3>>)>>]
    /\ pc' = [pc EXCEPT ![p] = "read"]
    /\ UNCHANGED <<running, host, console, canvas, gl, shaderProgram, pixels,
                   digest, yields, outcome, encVars>>

\* The buffer sized width * height, one byte a pixel: the host fills what
\* fits.
ReadPixels_OneBytePerPixel(p) ==
    /\ pc[p] = "read"
    /\ running = {p}
    /\ \E w \in 1..MaxDim, h \in 1..MaxDim :
        LET buffer == [i \in 1..(w * h) |-> 0]
            filled == SubSeq(Rendered(w, h), 1, Len(buffer))
        IN  /\ host' = [host EXCEPT ![p].width = w, ![p].height = h]
            /\ pixels' = [pixels EXCEPT ![p] = filled]
            /\ calls' = [calls EXCEPT ![p] = @ \o
                            <<Call("readPixels", <<"RGBA", "UNSIGNED_BYTE">>,
                                   <<0, 0, w, h, Len(buffer)>>)>>]
    /\ pc' = [pc EXCEPT ![p] = "digest"]
    /\ UNCHANGED <<running, console, canvas, gl, shaderProgram, digest, yields,
                   outcome, encVars>>

\* new Uint8Array(canvas.width * canvas.height * 4) and gl.readPixels.
ReadPixels(p) ==
    /\ pc[p] = "read"
    /\ running = {p}
    /\ \E w \in 1..MaxDim, h \in 1..MaxDim :
        LET buffer == [i \in 1..(w * h * BytesPerPixel) |-> 0]
            filled == SubSeq(Rendered(w, h), 1, Len(buffer))
        IN  /\ host' = [host EXCEPT ![p].width = w, ![p].height = h]
            /\ pixels' = [pixels EXCEPT ![p] = filled]
            /\ calls' = [calls EXCEPT ![p] = @ \o
                            <<Call("readPixels", <<"RGBA", "UNSIGNED_BYTE">>,
                                   <<0, 0, w, h, Len(buffer)>>)>>]
    /\ pc' = [pc EXCEPT ![p] = "digest"]
    /\ UNCHANGED <<running, console, canvas, gl, shaderProgram, digest, yields,
                   outcome, encVars>>

\* The digest call not awaited: the invocation stays on the stack and the
\* promise, not its value, goes on to the encoding.
Digest_NotAwaited(p) ==
    /\ pc[p] = "digest"
    /\ running = {p}
    /\ calls' = [calls EXCEPT ![p] = @ \o <<Call("digest", <<"SHA-256">>, pixels[p])>>]
    /\ digest' = [digest EXCEPT ![p] =
                    [state |-> "pending", data |-> pixels[p], value |-> <<>>]]
    /\ running' = {}
    /\ outcome' = [outcome EXCEPT ![p] = Resolved(hashHex(<<>>))]
    /\ pc' = [pc EXCEPT ![p] = "resolved"]
    /\ UNCHANGED <<host, console, canvas, gl, shaderProgram, pixels, yields, encVars>>

\* crypto.subtle.digest("SHA-256", pixels) and the await: the host copies the
\* bytes, the invocation leaves the stack.
Digest(p) ==
    /\ pc[p] = "digest"
    /\ running = {p}
    /\ calls' = [calls EXCEPT ![p] = @ \o <<Call("digest", <<"SHA-256">>, pixels[p])>>]
    /\ digest' = [digest EXCEPT ![p] =
                    [state |-> "pending", data |-> pixels[p], value |-> <<>>]]
    /\ yields' = [yields EXCEPT ![p] = @ + 1]
    /\ running' = {}
    /\ pc' = [pc EXCEPT ![p] = "awaiting"]
    /\ UNCHANGED <<host, console, canvas, gl, shaderProgram, pixels, outcome, encVars>>

\* The host fulfils the digest promise.
DigestSettle(p) ==
    /\ pc[p] = "awaiting"
    /\ digest[p].state = "pending"
    /\ digest' = [digest EXCEPT ![p].state = "fulfilled",
                                ![p].value = Sha256(digest[p].data)]
    /\ pc' = [pc EXCEPT ![p] = "ready"]
    /\ UNCHANGED <<running, host, calls, console, canvas, gl, shaderProgram,
                   pixels, yields, outcome, encVars>>

\* The result kept in one string shared by the invocations and appended to.
Resume_Accumulating(p) ==
    /\ pc[p] = "ready"
    /\ running = {}
    /\ LET earlier == {q \in Procs : outcome[q].kind = "resolved"}
           hashHexShared ==
                IF earlier = {} THEN <<>>
                ELSE outcome[CHOOSE q \in earlier :
                        \A r \in earlier :
                            Len(outcome[r].value) <= Len(outcome[q].value)].value
       IN  outcome' = [outcome EXCEPT ![p] =
                        Resolved(hashHexShared \o hashHex(digest[p].value))]
    /\ pc' = [pc EXCEPT ![p] = "resolved"]
    /\ UNCHANGED <<running, host, calls, console, canvas, gl, shaderProgram,
                   pixels, digest, yields, encVars>>

\* The digest kept in one variable shared by the invocations: the
\* continuation encodes whichever digest arrived, not its own.
Resume_SharedHashBuffer(p) ==
    /\ pc[p] = "ready"
    /\ running = {}
    /\ \E q \in Procs :
        /\ digest[q].state = "fulfilled"
        /\ outcome' = [outcome EXCEPT ![p] = Resolved(hashHex(digest[q].value))]
    /\ pc' = [pc EXCEPT ![p] = "resolved"]
    /\ UNCHANGED <<running, host, calls, console, canvas, gl, shaderProgram,
                   pixels, digest, yields, encVars>>

\* The continuation after the await: encode and return.
Resume(p) ==
    /\ pc[p] = "ready"
    /\ running = {}
    /\ outcome' = [outcome EXCEPT ![p] = Resolved(hashHex(digest[p].value))]
    /\ pc' = [pc EXCEPT ![p] = "resolved"]
    /\ UNCHANGED <<running, host, calls, console, canvas, gl, shaderProgram,
                   pixels, digest, yields, encVars>>

Next ==
    \E p \in Procs :
        \/ AcquireContext(p)
        \/ ConfigureCanvas(p)
        \/ InitShaderProgram(p)
        \/ UploadVertices(p)
        \/ BindPosition(p)
        \/ SetColor(p)
        \/ ClearAndDraw(p)
        \/ ReadPixels(p)
        \/ Digest(p)
        \/ DigestSettle(p)
        \/ Resume(p)

Spec == Init /\ [][Next]_vars

\* ------------------------------------------------------ reading the trace
Ops(s) == [i \in 1..Len(s) |-> s[i].op]
Made(p, op) == \E i \in 1..Len(calls[p]) : calls[p][i].op = op
Count(p, op, syms) ==
    Cardinality({i \in 1..Len(calls[p]) :
                    calls[p][i].op = op /\ calls[p][i].syms = syms})
Started(p) == pc[p] # "idle"
PastProgram(p) == pc[p] \notin {"idle", "style", "program"}
Suspended(p) == pc[p] \in {"awaiting", "ready", "resolved"}
CompileFailed(a) == a.created /\ ~a.compiled
LinkFailed(a) == a.created /\ ~a.linked

\* C1: when getContext("webgl") returns null the invocation rejects with
\* "WebGL is not supported" and makes no call into the host beyond
\* createElement and getContext: no shader compile, no draw, no readback, no
\* digest.
C1_NoContextRejects ==
    \A p \in Procs :
        (Started(p) /\ ~host[p].context) =>
            /\ pc[p] = "rejected"
            /\ outcome[p] = Rejected(ErrNoWebGL)
            /\ Ops(calls[p]) = <<"createElement", "getContext">>
            /\ ~Made(p, "compileShader") /\ ~Made(p, "drawArrays")
            /\ ~Made(p, "readPixels") /\ ~Made(p, "digest")
            /\ digest[p].state = "none"
            /\ yields[p] = 0

C1_Witness ==
    \E p \in Procs : pc[p] = "rejected" /\ ~host[p].context /\ Len(calls[p]) = 2

\* C2: a vertex compile failure, a fragment compile failure and a link
\* failure all reject with "Shader program could not be initialized", and
\* the invocation makes none of useProgram, drawArrays, readPixels, digest.
C2_PipelineFailureRejects ==
    \A p \in Procs :
        (PastProgram(p) /\ (\/ CompileFailed(host[p].vertex)
                            \/ CompileFailed(host[p].fragment)
                            \/ LinkFailed(host[p].program))) =>
            /\ pc[p] = "rejected"
            /\ outcome[p] = Rejected(ErrNoProgram)
            /\ shaderProgram[p] = NULL
            /\ ~Made(p, "useProgram") /\ ~Made(p, "drawArrays")
            /\ ~Made(p, "readPixels") /\ ~Made(p, "digest")
            /\ digest[p].state = "none"

C2_Witness ==
    \E p \in Procs, q \in Procs :
        /\ pc[p] = "rejected" /\ pc[q] = "rejected"
        /\ host[p].vertex.compiled /\ CompileFailed(host[p].fragment)
        /\ LinkFailed(host[q].program)
        /\ outcome[p] = outcome[q]

\* C4: two finished invocations that got the same answers from the host have
\* the same outcome (the same fingerprint or the same failure) and made the
\* same calls.
C4_Deterministic ==
    \A p \in Procs, q \in Procs :
        (/\ outcome[p].kind # "pending"
         /\ outcome[q].kind # "pending"
         /\ host[p] = host[q]) =>
            /\ outcome[p] = outcome[q]
            /\ calls[p] = calls[q]

C4_Witness ==
    \E p \in Procs, q \in Procs :
        /\ p # q
        /\ outcome[p].kind = "resolved" /\ outcome[q].kind = "resolved"
        /\ host[p] = host[q]
        /\ host[p].width * host[p].height > 1

\* C6: an invocation gives up the stack at most once, at the digest call,
\* with every graphics call through readPixels already made; it resolves
\* only after the digest has arrived; a rejected invocation never gave up
\* the stack.
C6_OneSuspension ==
    \A p \in Procs :
        /\ yields[p] <= 1
        /\ (yields[p] = 1) <=> Suspended(p)
        /\ Suspended(p) =>
            /\ calls[p][Len(calls[p])].op = "digest"
            /\ Made(p, "drawArrays") /\ Made(p, "readPixels")
            /\ digest[p].state # "none"
        /\ (p \notin running /\ ~Suspended(p)) => pc[p] \in {"idle", "rejected"}
        /\ pc[p] = "rejected" => yields[p] = 0
        /\ outcome[p].kind = "resolved" =>
            /\ digest[p].state = "fulfilled"
            /\ yields[p] = 1
        /\ outcome[p].kind = "rejected" => digest[p].state = "none"

C6_Witness ==
    \E p \in Procs, q \in Procs :
        /\ outcome[p].kind = "resolved" /\ yields[p] = 1
        /\ outcome[q].kind = "rejected" /\ yields[q] = 0

\* C7: under every interleaving an invocation resolves to the hex encoding
\* of the digest of what the host rendered into its own canvas, whatever the
\* other invocations do.
C7_Isolated ==
    \A p \in Procs :
        outcome[p].kind = "resolved" =>
            LET own == Rendered(host[p].width, host[p].height)
            IN  /\ pixels[p] = own
                /\ digest[p].data = own
                /\ outcome[p].value = hashHex(Sha256(own))

C7_Witness ==
    \E p \in Procs, q \in Procs :
        /\ outcome[p].kind = "resolved" /\ outcome[q].kind = "resolved"
        /\ pixels[p] # pixels[q]
        /\ outcome[p].value # outcome[q].value

\* C8: the readback buffer has width * height * 4 bytes, readPixels covers
\* (0, 0, width, height), and the digest is computed over exactly the bytes
\* the readback left in that buffer.
C8_ReadbackAndDigestInput ==
    \A p \in Procs :
        LET w == host[p].width
            h == host[p].height
            last == calls[p][Len(calls[p])]
        IN  /\ pc[p] = "digest" =>
                /\ Len(pixels[p]) = w * h * 4
                /\ last.op = "readPixels"
                /\ last.nums = <<0, 0, w, h, w * h * 4>>
            /\ Suspended(p) =>
                /\ Len(pixels[p]) = w * h * 4
                /\ pixels[p] = Rendered(w, h)
                /\ last = Call("digest", <<"SHA-256">>, pixels[p])
                /\ digest[p].data = pixels[p]
                /\ calls[p][Len(calls[p]) - 1].nums = <<0, 0, w, h, w * h * 4>>

C8_Witness ==
    \E p \in Procs, q \in Procs :
        /\ Suspended(p) /\ host[p].width = 1 /\ host[p].height = 1
        /\ Len(digest[p].data) = 4
        /\ Suspended(q) /\ host[q].width * host[q].height > 1

\* The calls of a successful invocation.
SuccessOps ==
    <<"createElement", "getContext",
      "createShader", "shaderSource", "compileShader", "getShaderParameter",
      "createShader", "shaderSource", "compileShader", "getShaderParameter",
      "createProgram", "attachShader", "attachShader", "linkProgram",
      "getProgramParameter",
      "useProgram",
      "createBuffer", "bindBuffer", "bufferData",
      "getAttribLocation", "enableVertexAttribArray", "vertexAttribPointer",
      "getUniformLocation", "uniform4f",
      "clearColor", "clear", "drawArrays",
      "readPixels", "digest">>

\* C9: a successful invocation makes each graphics and hash call exactly
\* once, in the order useProgram, buffer upload, attribute, uniform, clear,
\* one drawArrays(TRIANGLES, 0, 3), readPixels, digest.
C9_CallOrder ==
    \A p \in Procs :
        Suspended(p) =>
            /\ Ops(calls[p]) = SuccessOps
            /\ \E i \in 1..Len(calls[p]) :
                /\ calls[p][i] = Call("drawArrays", <<"TRIANGLES">>, <<0, 3>>)
                /\ calls[p][i - 1].op = "clear"
                /\ calls[p][i + 1].op = "readPixels"
                /\ calls[p][i + 2].op = "digest"
            /\ \A op \in {"useProgram", "bufferData", "enableVertexAttribArray",
                          "vertexAttribPointer", "uniform4f", "clearColor",
                          "clear", "drawArrays", "readPixels", "digest"} :
                Cardinality({i \in 1..Len(calls[p]) : calls[p][i].op = op}) = 1

C9_Witness ==
    \E p \in Procs : outcome[p].kind = "resolved" /\ Len(calls[p]) = Len(SuccessOps)

\* The diagnostic a failed compile of the vertex stage leaves in the log (the
\* vertex stage is compiled first), and that of the fragment stage (nothing
\* is logged after it: no link is attempted).
VertexDiag(p) == console[p][1]
FragmentDiag(p) == console[p][Len(console[p])]

\* C5 as stated: the diagnostic of a failed compile tells the stage, so the
\* diagnostic of a vertex-stage failure is never that of a fragment-stage
\* failure; the failed stage yields null.
C5_StageSpecificDiagnostic ==
    \A p \in Procs, q \in Procs :
        (/\ PastProgram(p) /\ CompileFailed(host[p].vertex)
         /\ PastProgram(q) /\ CompileFailed(host[q].fragment)) =>
            /\ VertexDiag(p) # FragmentDiag(q)
            /\ shaderProgram[p] = NULL /\ shaderProgram[q] = NULL

\* C5 amended: a failed compile logs the fixed text MsgCompile, the same for
\* either stage, followed by the host's info log of that shader; the shader
\* is deleted and the stage yields null (no program is created, nothing is
\* attached).
C5_CompileDiagnostic ==
    \A p \in Procs :
        PastProgram(p) =>
            /\ CompileFailed(host[p].vertex) =>
                /\ VertexDiag(p) = <<MsgCompile, host[p].vertex.log>>
                /\ Count(p, "getShaderInfoLog", <<"VERTEX_SHADER">>) = 1
                /\ Count(p, "deleteShader", <<"VERTEX_SHADER">>) = 1
                /\ Count(p, "attachShader", <<"VERTEX_SHADER">>) = 0
                /\ ~Made(p, "createProgram")
                /\ shaderProgram[p] = NULL
            /\ CompileFailed(host[p].fragment) =>
                /\ FragmentDiag(p) = <<MsgCompile, host[p].fragment.log>>
                /\ Count(p, "getShaderInfoLog", <<"FRAGMENT_SHADER">>) = 1
                /\ Count(p, "deleteShader", <<"FRAGMENT_SHADER">>) = 1
                /\ Count(p, "attachShader", <<"FRAGMENT_SHADER">>) = 0
                /\ ~Made(p, "createProgram")
                /\ shaderProgram[p] = NULL
            /\ (host[p].vertex.compiled /\ host[p].fragment.compiled) =>
                \A i \in 1..Len(console[p]) : console[p][i][1] # MsgCompile

C5_Witness ==
    \E p \in Procs :
        /\ pc[p] = "rejected"
        /\ CompileFailed(host[p].vertex) /\ CompileFailed(host[p].fragment)
        /\ Len(console[p]) = 2
        /\ VertexDiag(p) = FragmentDiag(p)

CompileOrLink == {"compileShader", "linkProgram"}
AtMostOnce(p) ==
    /\ Count(p, "compileShader", <<"VERTEX_SHADER">>) <= 1
    /\ Count(p, "compileShader", <<"FRAGMENT_SHADER">>) <= 1
    /\ Count(p, "linkProgram", <<>>) <= 1
    /\ Made(p, "linkProgram") =>
        host[p].vertex.compiled /\ host[p].fragment.compiled

\* C10 as stated: each stage is compiled at most once, the link is attempted
\* at most once and only when both stages compiled, and once a compile or
\* the link has failed no further compile or link call is made.
C10_NoCallAfterFailure ==
    \A p \in Procs :
        /\ AtMostOnce(p)
        /\ \A i \in 1..Len(calls[p]) :
            calls[p][i].op \in {"deleteShader", "getProgramInfoLog"} =>
                \A j \in (i + 1)..Len(calls[p]) :
                    calls[p][j].op \notin CompileOrLink

\* C10 amended: each stage is compiled at most once, the link is attempted
\* at most once and only when both stages compiled; no compile or link call
\* follows a failed fragment compile or a failed link; after a failed vertex
\* compile the fragment shader is still created and, when the host creates
\* it, compiled, once, and nothing is linked.
C10_NoRetry ==
    \A p \in Procs :
        /\ AtMostOnce(p)
        /\ \A i \in 1..Len(calls[p]) :
            (\/ calls[p][i] = Call("deleteShader", <<"FRAGMENT_SHADER">>, <<>>)
             \/ calls[p][i].op = "getProgramInfoLog") =>
                \A j \in (i + 1)..Len(calls[p]) :
                    calls[p][j].op \notin CompileOrLink
        /\ (PastProgram(p) /\ CompileFailed(host[p].vertex)) =>
            /\ Count(p, "createShader", <<"FRAGMENT_SHADER">>) = 1
            /\ Count(p, "compileShader", <<"FRAGMENT_SHADER">>) =
                    (IF host[p].fragment.created THEN 1 ELSE 0)
            /\ ~Made(p, "linkProgram")
            /\ pc[p] = "rejected"

C10_Witness ==
    \E p \in Procs, q \in Procs :
        /\ pc[p] = "rejected" /\ CompileFailed(host[p].vertex)
        /\ Count(p, "compileShader", <<"FRAGMENT_SHADER">>) = 1
        /\ pc[q] = "rejected" /\ LinkFailed(host[q].program)
        /\ Count(q, "linkProgram", <<>>) = 1

\* ------------------------------------------------- the encoding on its own
\* Digests the host may hand back: every byte value at every position.
Bytes == 0..255
Strides == {0, 1, 17}
DigestSamples ==
    {[i \in 1..HashLen |-> (b + s * (i - 1)) % 256] : b \in Bytes, s \in Strides}

InitEncode ==
    /\ InitProcs
    /\ hashBuffer \in DigestSamples
    /\ encoded = <<>>

\* Array.from(new Uint8Array(hashBuffer)).map(...).join("")
EncodeDigest ==
    /\ encoded = <<>>
    /\ encoded' = hashHex(hashBuffer)
    /\ UNCHANGED <<pc, running, host, calls, console, canvas, gl, shaderProgram,
                   pixels, digest, yields, outcome, hashBuffer>>

NextEncode == EncodeDigest

SpecEncode == InitEncode /\ [][NextEncode]_vars

HexChars == {HexDigits[i] : i \in 1..Len(HexDigits)}
HexVal(c) == CHOOSE d \in 0..15 : HexDigits[d + 1] = c

\* C3: the result is two lowercase hex characters per digest byte, in buffer
\* order, nothing between them: 64 characters of 0-9a-f for the 32 bytes of a
\* digest, whatever the bytes (those below 16 included).
C3_HexEncoding ==
    encoded # <<>> =>
        /\ Len(hashBuffer) = 32
        /\ Len(encoded) = 64
        /\ \A i \in 1..Len(encoded) : encoded[i] \in HexChars
        /\ \A k \in 1..Len(hashBuffer) :
            16 * HexVal(encoded[2 * k - 1]) + HexVal(encoded[2 * k]) = hashBuffer[k]

C3_Witness ==
    /\ encoded # <<>>
    /\ \E j \in 1..Len(hashBuffer), k \in 1..Len(hashBuffer) :
        /\ hashBuffer[j] = 0
        /\ hashBuffer[k] = 255
        /\ encoded[2 * j - 1] = "0" /\ encoded[2 * j] = "0"
        /\ encoded[2 * k - 1] = "f" /\ encoded[2 * k] = "f"

====
